---- MODULE Spec2Model ----
(***************************************************************************)
(* Presence tracker (src/main.py): one asyncio event loop runs             *)
(*   - telegram_worker: resolves the tracked user, performs the initial    *)
(*     status sync, then handles raw updates (handler);                    *)
(*   - delayed_offline: the 40 s debounce task armed by an OFFLINE update; *)
(*   - websocket_endpoint: one coroutine per connected observer;           *)
(*   - broadcast: sends the snapshot to every registered observer.         *)
(* Coroutines interleave only at their awaits.  A step of the model is the *)
(* code a coroutine runs between two awaits.  ws.send_json(state)          *)
(* serialises the dictionary when it is called, so a send is modelled at   *)
(* the moment of the call together with its outcome.                       *)
(***************************************************************************)
EXTENDS Integers, Sequences, FiniteSets, TLC

\* ---------------- bounds of the model ----------------
NumWS == 2
MaxTasks == 2
MaxTime == 80

\* ---------------- program constants ----------------
OFFLINE_DELAY == 40
TARGET_NAME == "User"

TickStep == OFFLINE_DELAY \div 2

WS == 1..NumWS
None == <<>>
Some(x) == <<x>>

VARIABLES
  state,         \* the global snapshot dictionary
  online_since,  \* None or Some(time)
  offline_task,  \* None or Some(task)
  clients,       \* the global set of registered websockets
  tasks,         \* the delayed_offline tasks
  jobs,          \* broadcasts suspended between two sends
  wpc,           \* position of telegram_worker
  user,          \* user.status of the resolved user until the initial sync
                 \* has read it, NoUser otherwise
  wsp,           \* per websocket: position of its endpoint / transport
  sent,          \* per websocket: the last snapshot delivered to it, kept
                 \* while its transport is up
  now,           \* the clock (utcnow), in seconds
  nbcast,        \* number of calls of broadcast() so far
  handled        \* what handler did with the last raw update: "none" yet,
                 \* "ignored" (lines 107-110) or "tracked"

vars == <<state, online_since, offline_task, clients, tasks, jobs, wpc, user,
          wsp, sent, now, nbcast, handled>>

\* ---------------- values ----------------
Snapshot(st, ls, du) ==
  [name |-> TARGET_NAME, status |-> st, last_seen |-> ls, duration |-> du]

NoSnapshot == [name |-> "", status |-> "", last_seen |-> "", duration |-> ""]

\* datetime.strftime("%Y-%m-%d %H:%M:%S"): a time becomes a string
Strftime(t) == ToString(t)

NoUser == [kind |-> "unresolved", was_online |-> None]

\* user.status as the adapter can report it
UserStatuses ==
  { [kind |-> "UserStatusOnline", was_online |-> None],
    [kind |-> "UserStatusOffline", was_online |-> Some(0)],
    [kind |-> "UserStatusRecently", was_online |-> None] }

\* raw updates delivered by the client
RawEvents ==
  { [update |-> "UpdateUserStatus", user_id |-> "target", status |-> "UserStatusOnline"],
    [update |-> "UpdateUserStatus", user_id |-> "target", status |-> "UserStatusOffline"],
    [update |-> "UpdateUserStatus", user_id |-> "target", status |-> "UserStatusRecently"],
    [update |-> "UpdateUserStatus", user_id |-> "other", status |-> "UserStatusOnline"],
    [update |-> "UpdateNewMessage", user_id |-> "target", status |-> "UserStatusOnline"] }

\* ---------------- broadcast (src/main.py 47-52) ----------------
\* the transport of w accepts a send only while its endpoint is healthy
SendOK(w) == wsp[w] = "recv"

\* a failed send that leaves the websocket registered
SendClientsKept(cl, w) == cl

\* try: await ws.send_json(snap)  except Exception: clients.discard(ws)
SendClients(cl, w) == IF SendOK(w) THEN cl ELSE cl \ {w}

\* the snapshot is delivered, or the send fails
SendSent(sn, w, snap) == [sn EXCEPT ![w] = IF SendOK(w) THEN snap ELSE NoSnapshot]

\* a broadcast suspended in a send: rest are the members of list(clients)
\* it has not sent to yet (the order of a set's list is not determined)
Job(kind, id, rest) == [kind |-> kind, id |-> id, rest |-> rest]

\* broadcast() called by `kind` with the dictionary equal to snap and the
\* other broadcasts js: it copies the set, sends to a first member at once
\* and is suspended before each further send
broadcast(kind, id, js, snap, first) ==
  /\ nbcast' = nbcast + 1
  /\ IF clients = {}
       THEN /\ clients' = clients
            /\ sent' = sent
            /\ jobs' = js
       ELSE /\ first \in clients
            /\ clients' = SendClients(clients, first)
            /\ sent' = SendSent(sent, first, snap)
            /\ jobs' = IF clients = {first} THEN js
                       ELSE js \cup {Job(kind, id, clients \ {first})}

\* the websockets a caller of broadcast may send to first (0: none registered)
Firsts == IF clients = {} THEN {0} ELSE clients

\* broadcast returns to its caller without being suspended
Returns == Cardinality(clients) <= 1

\* a suspended broadcast resumes: the next send carries the dictionary as it
\* is now; after the last send the caller continues
BroadcastStep(j) ==
  /\ j \in jobs
  /\ \E w \in j.rest :
       /\ clients' = SendClients(clients, w)
       /\ sent' = SendSent(sent, w, state)
       /\ jobs' = IF j.rest = {w} THEN jobs \ {j}
                  ELSE (jobs \ {j}) \cup {Job(j.kind, j.id, j.rest \ {w})}
       /\ wpc' = IF j.kind = "init" /\ j.rest = {w} THEN "running" ELSE wpc
       /\ tasks' = IF j.kind = "timer" /\ j.rest = {w}
                     THEN [tasks EXCEPT ![j.id].st = "done"] ELSE tasks
  /\ UNCHANGED <<state, online_since, offline_task, user, wsp, now, nbcast, handled>>

\* ---------------- asyncio tasks ----------------
\* tasks holds the delayed_offline tasks: a task is live while it sleeps or
\* broadcasts; the place of a task that has ended is taken by the next one
NoTask == [st |-> "none", armed |-> 0, wake |-> 0, superseded |-> FALSE]

Live(t) == t.st \in {"sleeping", "broadcasting"}

\* a task created with no delay: it wakes at once
TaskNoDelay(t) ==
  [st |-> "sleeping", armed |-> t, wake |-> t, superseded |-> FALSE]

\* asyncio.create_task(delayed_offline()) at time t: the task sleeps until
\* t + OFFLINE_DELAY; `armed` and `wake` are kept only while it sleeps
Task(t) ==
  [st |-> "sleeping", armed |-> t, wake |-> t + OFFLINE_DELAY, superseded |-> FALSE]

FreeSlots(ts) == { i \in 1..MaxTasks : ~Live(ts[i]) }

NewSlot(ts) == CHOOSE i \in FreeSlots(ts) : \A k \in FreeSlots(ts) : i <= k

\* a cancel that is lost: the task runs on
TaskCancelLost(ts, id) == ts

\* task.cancel(): a task suspended in sleep or in a send is ended by
\* CancelledError (broadcast catches Exception only); a finished task is left
TaskCancel(ts, id) ==
  [ts EXCEPT ![id].st = IF @ = "sleeping" THEN "cancelled"
                        ELSE IF @ = "broadcasting" THEN "aborted" ELSE @,
             ![id].armed = 0, ![id].wake = 0]

\* the task has slept and runs on
Woken(ts, id, st) == [ts EXCEPT ![id].st = st, ![id].armed = 0, ![id].wake = 0]

\* the broadcasts still running once the tasks are as in ts
LiveJobs(js, ts) == { j \in js : j.kind = "timer" => ts[j.id].st = "broadcasting" }

\* ---------------- delayed_offline (src/main.py 55-65) ----------------
\* a confirmation that keeps the stored last_seen
ConfirmStateSeenKept(st, t) == [st EXCEPT !.status = "OFFLINE", !.duration = ""]

\* lines 61-64: the dictionary after the confirmation at time t
ConfirmState(st, t) ==
  [st EXCEPT !.status = "OFFLINE", !.last_seen = Strftime(t), !.duration = ""]

delayed_offline(id) ==
  /\ tasks[id].st = "sleeping"
  /\ now >= tasks[id].wake
  /\ IF online_since = None
       THEN /\ state' = ConfirmState(state, now)
            /\ \E first \in Firsts : broadcast("timer", id, jobs, state', first)
            /\ tasks' = Woken(tasks, id, IF Returns THEN "done" ELSE "broadcasting")
       ELSE /\ tasks' = Woken(tasks, id, "done")
            /\ UNCHANGED <<state, clients, sent, jobs, nbcast>>
  /\ UNCHANGED <<online_since, offline_task, wpc, user, wsp, now, handled>>

\* ---------------- the state after the module is loaded (lines 33-43) ----------------
Init ==
  /\ state = Snapshot("CONNECTING", "--", "")
  /\ online_since = None
  /\ offline_task = None
  /\ clients = {}
  /\ tasks = [i \in 1..MaxTasks |-> NoTask]
  /\ jobs = {}
  /\ wpc = "start"
  /\ user = NoUser
  /\ wsp = [w \in WS |-> "new"]
  /\ sent = [w \in WS |-> NoSnapshot]
  /\ now = 0
  /\ nbcast = 0
  /\ handled = "none"

\* ---------------- telegram_worker (src/main.py 68-135) ----------------
\* lines 76-78, client.get_entity(TARGET_PHONE): the user (r), or an
\* exception (r = NoUser) and the fallback
ResolveDirect ==
  /\ wpc = "start"
  /\ \E r \in UserStatuses \cup {NoUser} :
       /\ user' = r
       /\ wpc' = IF r # NoUser THEN "resolved" ELSE "import"
  /\ UNCHANGED <<state, online_since, offline_task, clients, tasks, jobs,
                 wsp, sent, now, nbcast, handled>>

\* lines 79-81, ImportContactsRequest and res.users[0]: no try is around
\* them, so a failure (r = NoUser) ends telegram_worker
ResolveImport ==
  /\ wpc = "import"
  /\ \E r \in UserStatuses \cup {NoUser} :
       /\ user' = r
       /\ wpc' = IF r # NoUser THEN "resolved" ELSE "failed"
  /\ UNCHANGED <<state, online_since, offline_task, clients, tasks, jobs,
                 wsp, sent, now, nbcast, handled>>

\* a sync that leaves the dictionary as it is
SyncStateKept(st, us) == st

\* the dictionary after lines 89-98 for user.status = us
SyncState(st, us) ==
  IF us.kind = "UserStatusOnline"
    THEN [st EXCEPT !.status = "ONLINE", !.duration = ""]
    ELSE [st EXCEPT !.status = "OFFLINE",
                    !.last_seen = IF us.kind = "UserStatusOffline" /\ us.was_online # None
                                    THEN Strftime(us.was_online[1]) ELSE "--"]

\* lines 87-100; user.status is not read afterwards, and the handler is
\* registered once broadcast has returned
InitialSync ==
  /\ wpc = "resolved"
  /\ state' = SyncState(state, user)
  /\ online_since' = IF user.kind = "UserStatusOnline" THEN Some(now) ELSE online_since
  /\ \E first \in Firsts : broadcast("init", 0, jobs, state', first)
  /\ wpc' = IF Returns THEN "running" ELSE "syncing"
  /\ user' = NoUser
  /\ UNCHANGED <<offline_task, tasks, wsp, now, handled>>

\* the handler registered before the initial broadcast
HandlerRegisteredEarly == wpc \in {"syncing", "running"}

\* the handler registered before the user is resolved
HandlerRegisteredAtStart == TRUE

\* lines 103-104: handler is registered after the initial broadcast
HandlerRegistered == wpc = "running"

\* the test of line 109 left out
TrackedAny(event) == event.update = "UpdateUserStatus"

\* lines 107-110: the updates handler acts on
Tracked(event) == event.update = "UpdateUserStatus" /\ event.user_id = "target"

\* the pending task is not cancelled
CancelPendingSkipped(ts, ot) == ts

\* lines 116-118 and 130-131: if offline_task: offline_task.cancel()
CancelPending(ts, ot) == IF ot = None THEN ts ELSE TaskCancel(ts, ot[1])

\* the sleeping task an ONLINE update arrives before, if any, is marked
Supersede(ts, ot) ==
  IF ot # None /\ ts[ot[1]].st = "sleeping"
    THEN [ts EXCEPT ![ot[1]].superseded = TRUE] ELSE ts

\* the online marker kept by an OFFLINE update
ClearOnlineKept(os) == os

\* line 128: online_since = None
ClearOnline(os) == None

\* the test of line 120 left out
StatusChangesAlways(st) == TRUE

\* line 120: if state["status"] != "ONLINE"
StatusChanges(st) == st.status # "ONLINE"

\* the assignment of line 121 left out
OnlineStateStatusKept(st) == [st EXCEPT !.duration = ""]

\* lines 121 and 123
OnlineState(st) == [st EXCEPT !.status = "ONLINE", !.duration = ""]

\* lines 104-133, one raw update; an OFFLINE update is taken while a task
\* can be created and its deadline is within the clock
handler(event) ==
  /\ HandlerRegistered
  /\ handled' = IF Tracked(event) THEN "tracked" ELSE "ignored"
  /\ IF ~Tracked(event)
       THEN UNCHANGED <<state, online_since, offline_task, clients, tasks, jobs,
                        sent, nbcast>>
     ELSE IF event.status = "UserStatusOnline"
       THEN /\ tasks' = CancelPending(Supersede(tasks, offline_task), offline_task)
            /\ offline_task' = None
            /\ IF StatusChanges(state)
                 THEN /\ state' = OnlineState(state)
                      /\ online_since' = Some(now)
                      /\ \E first \in Firsts :
                           broadcast("handler", 0, LiveJobs(jobs, tasks'), state', first)
                 ELSE /\ jobs' = LiveJobs(jobs, tasks')
                      /\ UNCHANGED <<state, online_since, clients, sent, nbcast>>
     ELSE IF event.status = "UserStatusOffline"
       THEN /\ FreeSlots(CancelPending(tasks, offline_task)) # {}
            /\ now + OFFLINE_DELAY <= MaxTime
            /\ online_since' = ClearOnline(online_since)
            /\ offline_task' = Some(NewSlot(CancelPending(tasks, offline_task)))
            /\ tasks' = [CancelPending(tasks, offline_task) EXCEPT
                           ![offline_task'[1]] = Task(now)]
            /\ jobs' = LiveJobs(jobs, tasks')
            /\ UNCHANGED <<state, clients, sent, nbcast>>
     ELSE UNCHANGED <<state, online_since, offline_task, clients, tasks, jobs,
                      sent, nbcast>>
  /\ UNCHANGED <<wpc, user, wsp, now>>

\* ---------------- websocket_endpoint (src/main.py 148-158) ----------------
\* accept, clients.add(ws), send_json(state); the first send is outside the
\* try, so its failure ends the endpoint with ws still registered
\* a registration that is lost
RegisterLost(cl, ws) == cl

\* line 151: clients.add(ws)
Register(cl, ws) == cl \cup {ws}

Connect(ws) ==
  /\ wsp[ws] = "new"
  /\ clients' = Register(clients, ws)
  /\ \E ok \in BOOLEAN :
       /\ wsp' = [wsp EXCEPT ![ws] = IF ok THEN "recv" ELSE "dead"]
       /\ sent' = IF ok THEN [sent EXCEPT ![ws] = state] ELSE sent
  /\ UNCHANGED <<state, online_since, offline_task, tasks, jobs, wpc, user, now,
                 nbcast, handled>>

\* the transport of a connected observer breaks; the endpoint still waits in
\* receive_text
Break(ws) ==
  /\ wsp[ws] = "recv"
  /\ wsp' = [wsp EXCEPT ![ws] = "broken"]
  /\ sent' = [sent EXCEPT ![ws] = NoSnapshot]
  /\ UNCHANGED <<state, online_since, offline_task, clients, tasks, jobs, wpc, user,
                 now, nbcast, handled>>

\* a disconnect that leaves the websocket registered
UnregisterLost(cl, ws) == cl

\* line 158: clients.discard(ws)
Unregister(cl, ws) == cl \ {ws}

\* receive_text raises WebSocketDisconnect: clients.discard(ws)
Disconnect(ws) ==
  /\ wsp[ws] \in {"recv", "broken"}
  /\ wsp' = [wsp EXCEPT ![ws] = "closed"]
  /\ clients' = Unregister(clients, ws)
  /\ sent' = [sent EXCEPT ![ws] = NoSnapshot]
  /\ UNCHANGED <<state, online_since, offline_task, tasks, jobs, wpc, user,
                 now, nbcast, handled>>

websocket_endpoint(ws) == Connect(ws) \/ Disconnect(ws)

\* the clock advances; a sleeping delayed_offline wakes exactly at its deadline
Tick ==
  /\ now + TickStep <= MaxTime
  /\ \A i \in 1..MaxTasks :
       tasks[i].st = "sleeping" => now + TickStep <= tasks[i].wake
  /\ now' = now + TickStep
  /\ UNCHANGED <<state, online_since, offline_task, clients, tasks, jobs, wpc, user,
                 wsp, sent, nbcast, handled>>

Next ==
  \/ Tick
  \/ ResolveDirect
  \/ ResolveImport
  \/ InitialSync
  \/ \E event \in RawEvents : handler(event)
  \/ \E id \in 1..MaxTasks : delayed_offline(id)
  \/ \E j \in jobs : BroadcastStep(j)
  \/ \E ws \in WS : websocket_endpoint(ws)
  \/ \E ws \in WS : Break(ws)

Spec == Init /\ [][Next]_vars

\* the event loop resumes a task whose sleep is over, and time passes
FairSpec ==
  /\ Spec
  /\ WF_vars(Tick)
  /\ \A id \in 1..MaxTasks : WF_vars(delayed_offline(id))

\* ======================= the claims =======================

\* C1 (flicker suppression): a delayed_offline task that an ONLINE update
\* for the tracked user found sleeping is cancelled for good: it never
\* confirms (it is never broadcasting or done, so it never sets the status
\* to OFFLINE) and no broadcast of it exists that could send a snapshot.
FlickerSuppressed ==
  \A i \in 1..MaxTasks :
    tasks[i].superseded =>
      /\ tasks[i].st = "cancelled"
      /\ \A j \in jobs : ~(j.kind = "timer" /\ j.id = i)

\* an OFFLINE update was followed by an ONLINE update before the timer
\* fired, the deadline has passed and the status is still ONLINE
FlickerWitness ==
  \E i \in 1..MaxTasks :
    /\ tasks[i].superseded
    /\ tasks[i].st = "cancelled"
    /\ state.status = "ONLINE"
    /\ now = MaxTime

\* some delayed_offline task is suspended in its sleep
Sleeping == \E i \in 1..MaxTasks : tasks[i].st = "sleeping"

\* task i wakes from its sleep in this step
Fired(i) == tasks[i].st = "sleeping" /\ tasks'[i].st \in {"broadcasting", "done"}

ConfirmStep ==
  \A i \in 1..MaxTasks :
    Fired(i) =>
      /\ state'.status = "OFFLINE"
      /\ state'.last_seen = Strftime(tasks[i].armed + OFFLINE_DELAY)
      /\ state'.last_seen # Strftime(tasks[i].armed)
      /\ state'.duration = ""
      /\ nbcast' = nbcast + 1
      /\ (clients # {} /\ \A w \in clients : wsp[w] = "recv")
           => \E w \in clients : sent'[w] = state'

\* C2 (confirmed offline): a delayed_offline task that wakes (no update for
\* the tracked user has cancelled it) calls broadcast exactly once with the
\* status OFFLINE and last_seen the time of the OFFLINE update plus
\* OFFLINE_DELAY, not the time of the update; and under fairness of the
\* timer a sleeping task always comes to wake unless an update cancels it
\* (an ended task is broadcasting, done, cancelled or aborted).
ConfirmedOffline ==
  /\ [][ConfirmStep]_vars
  /\ Sleeping ~> ~Sleeping

\* a task has confirmed at the first possible deadline and an observer got
\* the OFFLINE snapshot
ConfirmedWitness ==
  /\ state.status = "OFFLINE"
  /\ state.last_seen = Strftime(OFFLINE_DELAY)
  /\ \E i \in 1..MaxTasks : tasks[i].st = "done"
  /\ \E w \in WS : sent[w] = state

OnlineUpdate ==
  [update |-> "UpdateUserStatus", user_id |-> "target", status |-> "UserStatusOnline"]

OfflineUpdate ==
  [update |-> "UpdateUserStatus", user_id |-> "target", status |-> "UserStatusOffline"]

\* C3 (redundant ONLINE is a no-op): an ONLINE update handled while the
\* status is ONLINE calls no broadcast and leaves the snapshot, the
\* observers and what they were sent unchanged; every ONLINE update leaves
\* the status ONLINE with at most one broadcast (so a second one in a row
\* sends nothing), and an OFFLINE update calls no broadcast, so OFFLINE then
\* ONLINE from the status ONLINE gives zero broadcasts.
RedundantOnlineNoop ==
  [][ /\ (handler(OnlineUpdate) /\ state.status = "ONLINE")
           => /\ state' = state
              /\ nbcast' = nbcast
              /\ sent' = sent
              /\ clients' = clients
      /\ handler(OnlineUpdate)
           => state'.status = "ONLINE" /\ nbcast' <= nbcast + 1
      /\ handler(OfflineUpdate)
           => nbcast' = nbcast /\ state' = state /\ sent' = sent
    ]_vars

\* the status was ONLINE, an OFFLINE update armed a timer and an ONLINE
\* update cancelled it: only the broadcast of the initial sync was made
RedundantOnlineWitness ==
  /\ state.status = "ONLINE"
  /\ online_since = None
  /\ nbcast = 1
  /\ \E i \in 1..MaxTasks : tasks[i].superseded

\* C4 (late-joining observer): a websocket can be registered in every state
\* (whatever the status, with a timer pending or a broadcast suspended);
\* the step registers it and delivers to it, unless its transport fails,
\* the snapshot as it is at that moment, and changes nothing else.
LateJoiner ==
  /\ [](\A ws \in WS : wsp[ws] = "new" => ENABLED Connect(ws))
  /\ [][\A ws \in WS :
          (wsp[ws] = "new" /\ wsp'[ws] # "new")
            => /\ ws \in clients'
               /\ wsp'[ws] \in {"recv", "dead"}
               /\ wsp'[ws] = "recv" => sent'[ws] = state
               /\ UNCHANGED <<state, jobs, tasks, online_since, nbcast>>
       ]_vars

\* an observer registered before the initial sync holds the CONNECTING
\* snapshot
LateJoinerWitness ==
  /\ state.status = "CONNECTING"
  /\ \E ws \in clients : wsp[ws] = "recv" /\ sent[ws] = state

\* the broadcasts after job j has sent to w
Stepped(j, w) ==
  IF j.rest = {w} THEN jobs \ {j}
  ELSE (jobs \ {j}) \cup {Job(j.kind, j.id, j.rest \ {w})}

\* C5 (broadcast isolation): a send of a broadcast that fails removes that
\* observer and no other from the set; the broadcast goes on with every
\* other observer it copied at its start, and nothing of the state machine
\* (snapshot, online_since, offline_task) changes by the failure.
BroadcastIsolation ==
  [][ /\ \A j \in jobs :
           BroadcastStep(j)
             => \E w \in j.rest :
                  /\ jobs' = Stepped(j, w)
                  /\ wsp[w] # "recv" => w \notin clients'
                  /\ clients' \subseteq clients
                  /\ clients \ clients' \subseteq {w}
                  /\ UNCHANGED <<state, online_since, offline_task, nbcast>>
      /\ (nbcast' = nbcast + 1 /\ clients # {})
           => \E first \in clients :
                /\ wsp[first] # "recv" => first \notin clients'
                /\ clients \ clients' \subseteq {first}
                /\ clients # {first}
                     => \E j \in jobs' : j.rest = clients \ {first}
    ]_vars

\* a broadcast is suspended with observers still to send to after its send
\* to a dead observer has failed and removed that observer
IsolationWitness ==
  \E j \in jobs, w \in WS :
    /\ wsp[w] = "dead"
    /\ w \notin clients
    /\ w \notin j.rest
    /\ j.rest # {}

\* C6 (status transition discipline): the status is always one of the three
\* values; it is CONNECTING exactly while telegram_worker has not made the
\* initial sync; it never returns to CONNECTING; and it leaves CONNECTING
\* only by the initial sync, before any update or timer.
StatusDiscipline ==
  /\ [](/\ state.status \in {"CONNECTING", "ONLINE", "OFFLINE"}
        /\ state.status = "CONNECTING"
             <=> wpc \in {"start", "import", "resolved", "failed"})
  /\ [][ /\ state.status # "CONNECTING" => state'.status # "CONNECTING"
         /\ (state.status = "CONNECTING" /\ state'.status # "CONNECTING")
              => /\ wpc = "resolved"
                 /\ handled = "none"
                 /\ \A i \in 1..MaxTasks : tasks[i] = NoTask
       ]_vars

\* after the initial sync the status went to ONLINE by an update and back
\* to OFFLINE by a confirmed timer (three broadcasts)
StatusWitness ==
  /\ state.status = "OFFLINE"
  /\ nbcast = 3
  /\ handled = "tracked"
  /\ \E i \in 1..MaxTasks : tasks[i].st = "done"

\* C7 (ONLINE snapshots carry no last-seen): every snapshot with the status
\* ONLINE, in the dictionary or delivered to an observer, has last_seen "--"
\* and an empty duration.
OnlineSnapshotsClean ==
  /\ state.status = "ONLINE" => state.last_seen = "--" /\ state.duration = ""
  /\ \A w \in WS :
       sent[w].status = "ONLINE" => sent[w].last_seen = "--" /\ sent[w].duration = ""

\* the snapshot the initial sync must produce for user.status = us at time t
SyncedSnapshot(us) ==
  IF us.kind = "UserStatusOnline" THEN Snapshot("ONLINE", "--", "")
  ELSE Snapshot("OFFLINE",
                IF us.was_online # None THEN Strftime(us.was_online[1]) ELSE "--",
                "")

\* C8 (initial sync): the step that follows the resolution sets the
\* dictionary from user.status (ONLINE with online_since the time of the
\* sync, or OFFLINE with the reported last-seen time or "--") and calls
\* broadcast, the first call; until that broadcast has returned no update
\* has been handled and no timer exists, and when the first update is
\* handled broadcast has been called exactly once.
InitialSyncOnce ==
  /\ [](/\ wpc \in {"start", "import", "resolved", "failed"} => nbcast = 0
        /\ wpc # "running"
             => handled = "none" /\ \A i \in 1..MaxTasks : tasks[i] = NoTask
        /\ (wpc = "syncing" \/ handled = "none") => nbcast <= 1)
  /\ [][(wpc = "resolved" /\ wpc' # "resolved")
          => /\ state' = SyncedSnapshot(user)
             /\ online_since' = IF user.kind = "UserStatusOnline"
                                  THEN Some(now) ELSE None
             /\ nbcast' = 1
             /\ wpc' \in {"syncing", "running"}
       ]_vars

\* the user was reported offline with a last-seen time: that snapshot was
\* broadcast once and delivered, and no update has been handled yet
SyncWitness ==
  /\ wpc = "running"
  /\ handled = "none"
  /\ nbcast = 1
  /\ state = Snapshot("OFFLINE", Strftime(0), "")
  /\ \E w \in WS : sent[w] = state

\* C9 (updates for others are ignored): handling an update that is no
\* status update or is for another user leaves the dictionary,
\* online_since, the timer, the observers and what they were sent
\* unchanged, and calls no broadcast.
IgnoredUpdates ==
  [][\A e \in RawEvents :
       ((e.update # "UpdateUserStatus" \/ e.user_id # "target") /\ handler(e))
         => UNCHANGED <<state, online_since, offline_task, tasks, clients, jobs,
                        sent, nbcast>>
    ]_vars

\* an update was ignored while a timer is pending
IgnoredWitness ==
  /\ handled = "ignored"
  /\ \E i \in 1..MaxTasks : tasks[i].st = "sleeping" /\ offline_task = Some(i)

\* C10 (fatal resolution failure): telegram_worker fails only by the
\* failure of the import fallback; from then on it stays failed, the status
\* is CONNECTING, broadcast is never called, no update is handled, and an
\* observer that connects is delivered the CONNECTING snapshot.
FatalResolution ==
  /\ [](wpc = "failed"
         => /\ state = Snapshot("CONNECTING", "--", "")
            /\ nbcast = 0
            /\ handled = "none"
            /\ jobs = {}
            /\ \A i \in 1..MaxTasks : tasks[i] = NoTask
            /\ \A w \in WS : wsp[w] = "recv" => sent[w] = state)
  /\ [][ /\ wpc = "failed" => wpc' = "failed"
         /\ (wpc # "failed" /\ wpc' = "failed") => (wpc = "import" /\ user' = NoUser)
       ]_vars

\* the worker has failed, time has passed to the end and an observer that
\* connected holds the CONNECTING snapshot
FatalWitness ==
  /\ wpc = "failed"
  /\ now = MaxTime
  /\ \E w \in WS : wsp[w] = "recv" /\ sent[w].status = "CONNECTING"

\* the delayed_offline tasks that sleep or broadcast
LiveTasks == { i \in 1..MaxTasks : Live(tasks[i]) }

\* C11 (at most one live debounce timer): at most one delayed_offline task
\* is live (sleeping, or woken and broadcasting) and it is the one
\* offline_task refers to; handling an OFFLINE update leaves exactly one
\* live task, the new one, sleeping until the time of the update plus
\* OFFLINE_DELAY (any task that was live is cancelled); after an ONLINE
\* update is handled no task is live and offline_task is None.
OneLiveTimer ==
  /\ [](/\ Cardinality(LiveTasks) <= 1
        /\ \A i \in LiveTasks : offline_task = Some(i))
  /\ [][ /\ handler(OfflineUpdate)
              => \E i \in 1..MaxTasks :
                   /\ offline_task' = Some(i)
                   /\ tasks'[i] = [st |-> "sleeping", armed |-> now,
                                   wake |-> now + OFFLINE_DELAY, superseded |-> FALSE]
                   /\ \A k \in 1..MaxTasks : k # i => ~Live(tasks'[k])
                   /\ \A j \in jobs' : j.kind # "timer"
         /\ handler(OnlineUpdate)
              => /\ offline_task' = None
                 /\ \A k \in 1..MaxTasks : ~Live(tasks'[k])
                 /\ \A j \in jobs' : j.kind # "timer"
       ]_vars

\* a timer armed at TickStep is still the only one pending at OFFLINE_DELAY,
\* when a timer armed at 0 would have fired; the status is still ONLINE
OneLiveTimerWitness ==
  /\ now = OFFLINE_DELAY
  /\ state.status = "ONLINE"
  /\ \E i \in 1..MaxTasks :
       /\ tasks[i].st = "sleeping"
       /\ tasks[i].armed = TickStep
       /\ offline_task = Some(i)

\* C12 (OFFLINE update is provisional): handling an OFFLINE update for the
\* tracked user calls no broadcast and sends nothing, and leaves the
\* dictionary, the observer set, what the observers hold, the worker and
\* the clock unchanged; it sets online_since to None and arms a new task
\* (cancelling the pending one, whose broadcast, if it was under way, ends:
\* no other broadcast is touched).
OfflineProvisional ==
  [][handler(OfflineUpdate)
       => /\ UNCHANGED <<state, clients, sent, nbcast, wpc, wsp, now, user>>
          /\ online_since' = None
          /\ offline_task' # None
          /\ tasks'[offline_task'[1]].st = "sleeping"
          /\ jobs' \subseteq jobs
          /\ \A j \in jobs \ jobs' : j.kind = "timer"
    ]_vars

\* an OFFLINE update has just been handled while the status was ONLINE:
\* the marker is cleared and the timer armed, the dictionary is still
\* ONLINE and the observer still holds the ONLINE snapshot
OfflineProvisionalWitness ==
  /\ state.status = "ONLINE"
  /\ online_since = None
  /\ handled = "tracked"
  /\ \E i \in 1..MaxTasks :
       tasks[i].st = "sleeping" /\ tasks[i].armed = now /\ offline_task = Some(i)
  /\ \E w \in clients : sent[w] = state

\* a broadcast called by handler or by delayed_offline is suspended
\* between two sends: the processing of that update or firing is under way
InProgress == \E j \in jobs : j.kind \in {"handler", "timer"}

\* C13 (serialized state machine): no update for the tracked user starts
\* to be handled, and no delayed_offline task wakes, while the processing
\* of another update or firing is under way.
Serialized ==
  [][ /\ (\E e \in RawEvents : Tracked(e) /\ handler(e)) => ~InProgress
      /\ (\E i \in 1..MaxTasks : Fired(i)) => ~InProgress
    ]_vars

\* the statuses the dictionary can have when a broadcast of this kind is
\* called: handler calls it after line 121, delayed_offline after line 62,
\* the initial sync after line 90 or 94
StartedWith(kind) ==
  IF kind = "handler" THEN {"ONLINE"}
  ELSE IF kind = "timer" THEN {"OFFLINE"}
  ELSE {"ONLINE", "OFFLINE"}

\* C14 (one broadcast, one value): a broadcast is called with the
\* dictionary in a status of its caller, and every later send of that
\* broadcast carries a snapshot of that same status (as it must if every
\* send carries the value the dictionary had when the broadcast was called).
OneBroadcastOneValue ==
  [][ /\ nbcast' = nbcast + 1
           => \A j \in jobs' \ jobs : state'.status \in StartedWith(j.kind)
      /\ \A j \in jobs :
           BroadcastStep(j)
             => /\ state.status \in StartedWith(j.kind)
                /\ \A w \in j.rest :
                     sent'[w] # sent[w] => sent'[w].status \in StartedWith(j.kind)
    ]_vars

\* task i wakes and confirms (the test of line 60 passes)
Confirms(i) == Fired(i) /\ online_since = None

\* C15 (OFFLINE-while-already-OFFLINE is unreachable), as claimed: no
\* delayed_offline task confirms in a state whose status is already OFFLINE.
ConfirmNeverWhileOffline ==
  [][\A i \in 1..MaxTasks : Confirms(i) => state.status # "OFFLINE"]_vars

\* C15 as amended: the dictionary does not change while a task sleeps, so
\* a task confirms with the status already OFFLINE exactly when the OFFLINE
\* update that armed it was handled with the status OFFLINE; that
\* confirmation calls broadcast and changes the dictionary in last_seen
\* only, which becomes the time of the firing whatever was stored; a task
\* wakes only with online_since None and the status ONLINE or OFFLINE.
ConfirmWhileOffline ==
  [][\A i \in 1..MaxTasks :
       /\ (tasks[i].st = "sleeping" /\ tasks'[i].st = "sleeping") => state' = state
       /\ Fired(i) => online_since = None /\ state.status \in {"ONLINE", "OFFLINE"}
       /\ (Confirms(i) /\ state.status = "OFFLINE")
            => /\ state' = [state EXCEPT !.last_seen = Strftime(now)]
               /\ nbcast' = nbcast + 1
    ]_vars

\* the initial sync stored OFFLINE with the reported last-seen time, which
\* an observer still holds; a timer has since confirmed with no ONLINE
\* broadcast in between (two calls of broadcast in all) and last_seen is
\* now the time of the firing
ConfirmWhileOfflineWitness ==
  /\ state = Snapshot("OFFLINE", Strftime(OFFLINE_DELAY), "")
  /\ nbcast = 2
  /\ \E w \in WS : sent[w] = Snapshot("OFFLINE", Strftime(0), "")

\* C16 (every send failure drops the observer): when the send at
\* registration fails, and when a send of a broadcast fails, the observer
\* is not in the observer set afterwards, no other observer leaves the set
\* and the dictionary, online_since and the timer are unchanged.
SendFailureDrops ==
  [][ /\ \A w \in WS :
           (wsp[w] = "new" /\ wsp'[w] = "dead")
             => /\ w \notin clients'
                /\ clients' \ {w} = clients \ {w}
                /\ UNCHANGED <<state, online_since, offline_task, tasks>>
      /\ \A j \in jobs :
           BroadcastStep(j)
             => \E w \in j.rest :
                  /\ jobs' = Stepped(j, w)
                  /\ ~SendOK(w) => w \notin clients'
                  /\ clients' \ {w} = clients \ {w}
                  /\ UNCHANGED <<state, online_since, offline_task>>
    ]_vars

\* C17 (online_since implies ONLINE): whenever online_since is not None
\* the status of the dictionary is ONLINE; it is None while the status is
\* CONNECTING or OFFLINE.
OnlineSinceImpliesOnline ==
  /\ online_since # None => state.status = "ONLINE"
  /\ state.status \in {"CONNECTING", "OFFLINE"} => online_since = None

\* a timer confirmed OFFLINE at OFFLINE_DELAY and an ONLINE update handled
\* at MaxTime set the marker again
OnlineSinceWitness ==
  /\ online_since = Some(MaxTime)
  /\ state = Snapshot("ONLINE", Strftime(OFFLINE_DELAY), "")

\* C18 (observers converge on the store): whenever no broadcast is
\* suspended between two sends, every registered observer whose transport
\* is up holds, as the last snapshot sent to it, the dictionary as it is.
ObserversConverge ==
  jobs = {} => \A w \in clients : wsp[w] = "recv" => sent[w] = state

\* C19 (disconnected observers get nothing more), as claimed: no send of a
\* broadcast is made to a websocket that was unregistered on disconnect.
NoSendAfterDisconnect ==
  [][\A j \in jobs :
       BroadcastStep(j)
         => \E w \in j.rest : wsp[w] # "closed" /\ jobs' = Stepped(j, w)
    ]_vars

\* C19 as amended: a websocket unregistered on disconnect is not in the
\* observer set and is never added again, nothing is delivered to it, and
\* no broadcast called afterwards sends to it (a broadcast copies the
\* observer set as it is at the call); only a broadcast that was suspended
\* when it disconnected still makes its send to it, which fails.
DisconnectedDropped ==
  /\ [](\A w \in WS : wsp[w] = "closed" => w \notin clients /\ sent[w] = NoSnapshot)
  /\ [][ /\ \A w \in WS : wsp[w] = "closed" => wsp'[w] = "closed"
         /\ nbcast' = nbcast + 1
              => \A j \in jobs' \ jobs : \A w \in j.rest : w \in clients /\ wsp[w] # "closed"
         /\ \A j \in jobs :
              BroadcastStep(j) => \A w \in WS : wsp[w] = "closed" => sent'[w] = NoSnapshot
       ]_vars

\* an observer has disconnected while a broadcast that copied it is
\* suspended: the send to it is still to be made
DisconnectedWitness ==
  \E j \in jobs : \E w \in j.rest : wsp[w] = "closed" /\ w \notin clients

\* C20 (ONLINE update restores the online marker): after an ONLINE update
\* for the tracked user is handled online_since is not None, and whenever
\* the status is ONLINE and no delayed_offline task is live online_since is
\* not None.
OnlineRestoresMarker ==
  /\ [][handler(OnlineUpdate) => online_since' # None]_vars
  /\ []((state.status = "ONLINE" /\ LiveTasks = {}) => online_since # None)
====
